---------------------------- MODULE Spec2Model ----------------------------
(***************************************************************************)
(* Training Job Orchestrator: ModelTrainerAPI of                           *)
(* src/api/model_trainer_api-v1.py.                                        *)
(*                                                                         *)
(* Request threads (callers) run start_training, cancel_training and       *)
(* delete_model; every admitted job gets its own worker thread             *)
(* (_simulate_training.training_worker).  The code takes no lock, so every *)
(* statement that reads or writes shared state is a step of its own and    *)
(* the steps of different threads interleave freely.  Statements that only *)
(* touch thread-local values are folded into the neighbouring step.        *)
(*                                                                         *)
(* TrainingJob objects live in `heap` (the address of an object is its     *)
(* index); the dict self.training_jobs maps a job id to an address, so a   *)
(* thread that fetched `job = self.training_jobs.get(job_id)` keeps its    *)
(* object even when the dict entry is later rebound.                       *)
(***************************************************************************)
EXTENDS Integers, Sequences, FiniteSets, TLC

VARIABLES
    max_concurrent_jobs,  \* self.config.max_concurrent_jobs
    now,                  \* the wall clock, in seconds (time.time(), datetime.now())
    heap,                 \* the TrainingJob objects, in order of creation
    training_jobs,        \* self.training_jobs: job id -> address in heap
    trained_models,       \* self.trained_models: model name -> ModelInfo
    active_jobs,          \* self.active_jobs
    jobs_file,            \* logs_directory/training_jobs.json
    models_file,          \* models_directory/trained_models.json
    caller,               \* the request threads: position and locals
    worker,               \* worker[i]: the thread spawned by the admission that created heap[i]
    calls,                \* request operations begun so far
    running,              \* the thread in the middle of its code (0: none)
    preemptions,          \* switches made away from a thread in the middle of its code
    response,             \* what the request operation that returned last returned
    exports,              \* the export files written into models_directory
    restarts              \* times the process ended and a new ModelTrainerAPI was built

vars == <<max_concurrent_jobs, now, heap, training_jobs, trained_models,
          active_jobs, jobs_file, models_file, caller, worker, calls,
          running, preemptions, response, exports, restarts>>

----------------------------------------------------------------------------
(* Bounds of the model *)

NumCallers == 2     \* request threads
MaxJobs == 2        \* TrainingJob objects created in one process lifetime
MaxTime == 0        \* the clock runs over 0..MaxTime
MaxEpochs == 1      \* epochs requested by all the calls of one run together
MaxCeiling == 1     \* config.max_concurrent_jobs ranges over 1..MaxCeiling
MaxCalls == 3       \* request operations begun in one run
MaxPreemptions == 1 \* switches away from a thread that is neither asleep nor finished
MaxRestarts == 1    \* process restarts in one run

(* Program constants *)

StepsPerEpoch == 10 \* for step in range(10)
LogEvery == 3       \* if step % 3 == 0

Callers == 1..NumCallers

----------------------------------------------------------------------------
(* Values *)

None == <<>>            \* Optional[...] = None
Some(x) == <<x>>

NoId == <<>>
NoAddr == 0

ModelNames == {"   ", "m1"}
DatasetPaths == {"missing.csv", "train.csv"}
EpochsValues == 0..MaxEpochs

Terminal == {"completed", "failed", "cancelled"}

\* an id that start_training never allocates within the bounds
UnknownId == <<0, MaxJobs>>

EmptyJobs == [k \in {} |-> NoAddr]
EmptyCatalog == [k \in {} |-> None]
EmptyList == <<>>

LogLine(kind, a, b) == <<kind, a, b>>

----------------------------------------------------------------------------
(* The file system seen by validate_dataset *)

FileExists(path) == path \in {"huge.csv", "data.exe", "train.csv"}
FileTooLarge(path) == path = "huge.csv"
FileExt(path) == IF path = "data.exe" THEN ".exe" ELSE ".csv"
supported_formats == {".json", ".jsonl", ".csv", ".txt", ".parquet"}

validate_dataset(path) ==
    IF path = "" \/ ~FileExists(path) THEN [ok |-> FALSE, msg |-> "File does not exist"]
    ELSE IF FileTooLarge(path) THEN [ok |-> FALSE, msg |-> "File too large"]
    ELSE IF FileExt(path) \notin supported_formats
         THEN [ok |-> FALSE, msg |-> "Unsupported format"]
    ELSE [ok |-> TRUE, msg |-> "Dataset validated successfully"]

\* str.strip() on the names of ModelNames
Strip(s) == IF s = "   " THEN "" ELSE s

----------------------------------------------------------------------------
(* Locals of the threads *)

IdleCaller ==
    [pc |-> "idle", op |-> "none", model_name |-> "", dataset_path |-> "",
     epochs |-> 0, job_id |-> NoId, job |-> NoAddr, tmp |-> 0,
     jobs_data |-> EmptyList, models_data |-> EmptyList]

UnbornWorker ==
    [pc |-> "unborn", job |-> NoAddr, epoch |-> 0, step |-> 0, tmp |-> 0,
     jobs_data |-> EmptyList, models_data |-> EmptyList]

\* a job loaded from the catalog has no worker thread
NoWorker == [UnbornWorker EXCEPT !.pc = "none"]

\* the Tuple[bool, str] an operation returns; message is the fixed part of the text
Reply(op, success, message) == [op |-> op, success |-> success, message |-> message]

NoReply == Reply("none", FALSE, "")

\* start_training calls that passed the name checks and created no job object yet
InFlight == Cardinality({c \in Callers : caller[c].pc \in {"capacity", "job_id", "insert"}})

RECURSIVE SumEpochs(_)
SumEpochs(jobs) == IF jobs = <<>> THEN 0 ELSE Head(jobs).epochs + SumEpochs(Tail(jobs))

\* epochs requested by the jobs created and by the calls still before their insert
EpochsUsed == SumEpochs(heap) + SumEpochs([c \in Callers |->
                   IF caller[c].pc \in {"capacity", "job_id", "insert"}
                   THEN caller[c] ELSE IdleCaller])

----------------------------------------------------------------------------
Init ==
    /\ max_concurrent_jobs \in 1..MaxCeiling
    /\ now = 0
    /\ heap = <<>>
    /\ training_jobs = EmptyJobs
    /\ trained_models = EmptyCatalog
    /\ active_jobs = 0
    /\ jobs_file = [exists |-> FALSE, data |-> EmptyList]
    /\ models_file = [exists |-> FALSE, data |-> EmptyList]
    /\ caller = [c \in Callers |-> IdleCaller]
    /\ worker = <<>>
    /\ calls = 0
    /\ running = 0
    /\ preemptions = 0
    /\ response = NoReply
    /\ exports = {}
    /\ restarts = 0


----------------------------------------------------------------------------
(* Helpers on the shared state *)

\* job.<field> = value, on the object at address a
SetJob(h, a, field, value) == [h EXCEPT ![a][field] = value]

\* job.logs.append(line)
AppendLog(h, a, line) == [h EXCEPT ![a].logs = Append(@, line)]

\* the elements of a set in a fixed order; it stands for the order in which a
\* dict is iterated, which nothing that is built from the list depends on
RECURSIVE SeqOfSet(_)
SeqOfSet(S) ==
    IF S = {} THEN <<>>
    ELSE LET x == CHOOSE y \in S : TRUE IN <<x>> \o SeqOfSet(S \ {x})

\* [asdict(job) for job in self.training_jobs.values()]
SnapshotJobs ==
    LET ids == SeqOfSet(DOMAIN training_jobs)
    IN [k \in 1..Len(ids) |-> heap[training_jobs[ids[k]]]]

\* [asdict(model) for model in self.trained_models.values()]
SnapshotModels ==
    LET names == SeqOfSet(DOMAIN trained_models)
    IN [k \in 1..Len(names) |-> trained_models[names[k]]]

\* json.dump and json.load of an Optional[str]: None is written as null
JsonOptional(o) == IF o = None THEN [null |-> TRUE] ELSE [null |-> FALSE, value |-> o[1]]
FromJsonOptional(j) == IF j.null THEN None ELSE Some(j.value)

\* json.dump(jobs_data): a JSON array of objects, one per record
DumpJobs(jobs_data) ==
    [k \in 1..Len(jobs_data) |->
        [jobs_data[k] EXCEPT !.end_time = JsonOptional(@),
                             !.error_message = JsonOptional(@)]]

\* json.dump(models_data)
DumpModels(models_data) ==
    [k \in 1..Len(models_data) |-> [models_data[k] EXCEPT !.created_at = JsonOptional(@)]]

\* a loader that keeps the scalar fields and starts every job with empty logs
LoadJobsWithoutLogs(data) ==
    [k \in 1..Len(data) |->
        [data[k] EXCEPT !.end_time = FromJsonOptional(@),
                        !.error_message = FromJsonOptional(@),
                        !.logs = <<>>]]

\* lines 86-87: json.load, then TrainingJob(**job_data) for every object of the array
LoadJobs(data) ==
    [k \in 1..Len(data) |->
        [data[k] EXCEPT !.end_time = FromJsonOptional(@),
                        !.error_message = FromJsonOptional(@)]]

\* lines 94-95: json.load, then ModelInfo(**model_data)
LoadModels(data) ==
    [k \in 1..Len(data) |-> [data[k] EXCEPT !.created_at = FromJsonOptional(@)]]

\* the ids of the records of a jobs catalog, and the record of an id
FileJobIds(data) == {data[k].id : k \in 1..Len(data)}
FileJob(data, id) == data[CHOOSE k \in 1..Len(data) : data[k].id = id]

\* the record a thread sees through self.training_jobs[id]
JobOf(id) == heap[training_jobs[id]]

\* int(((epoch * 10 + step + 1) / (job.epochs * 10)) * 100), k = epoch * 10 + step + 1
\* and n = job.epochs * 10: a float division, a float product and a truncation.
\* The float result falls below the exact quotient for the pairs of FloatBelow.
FloatBelow == {<<29, 50>>, <<29, 100>>, <<57, 100>>, <<58, 100>>}
Progress(k, n) ==
    IF <<k, n>> \in FloatBelow THEN ((100 * k) \div n) - 1 ELSE (100 * k) \div n

NewJob(id, model_name, dataset_path, epochs) ==
    [id |-> id, model_name |-> model_name, dataset_path |-> dataset_path,
     status |-> "pending", progress |-> 0, epochs |-> epochs,
     end_time |-> None, error_message |-> None,
     logs |-> <<LogLine("created", 0, 0), LogLine("dataset", 0, 0)>>]

NewModel(job, job_id) ==
    [name |-> job.model_name, training_job_id |-> job_id,
     created_at |-> job.end_time, dataset_path |-> job.dataset_path]

----------------------------------------------------------------------------
(* start_training *)

\* name checks that validate the dataset before they look for a duplicate name
start_training_dataset_first(c, model_name, dataset_path, epochs) ==
    /\ caller[c].pc = "idle"
    /\ calls < MaxCalls
    /\ \/ Len(heap) + InFlight < MaxJobs
       \/ Strip(model_name) = ""
       \/ model_name \in DOMAIN trained_models
       \/ ~validate_dataset(dataset_path).ok
    /\ epochs + EpochsUsed <= MaxEpochs
    /\ calls' = calls + 1
    /\ IF Strip(model_name) = ""
       THEN /\ response' = Reply("start_training", FALSE, "Model name is required")
            /\ UNCHANGED caller
       ELSE IF ~validate_dataset(dataset_path).ok
       THEN /\ response' = Reply("start_training", FALSE, "Dataset validation failed")
            /\ UNCHANGED caller
       ELSE IF model_name \in DOMAIN trained_models
       THEN /\ response' = Reply("start_training", FALSE, "Model already exists")
            /\ UNCHANGED caller
       ELSE /\ caller' = [caller EXCEPT ![c] =
                            [IdleCaller EXCEPT !.pc = "capacity", !.op = "start_training",
                                               !.model_name = model_name,
                                               !.dataset_path = dataset_path,
                                               !.epochs = epochs]]
            /\ UNCHANGED response
    /\ UNCHANGED <<max_concurrent_jobs, now, heap, training_jobs, trained_models,
                   active_jobs, jobs_file, models_file, worker, exports, restarts>>

\* lines 193-197: the call and its name checks
start_training_names(c, model_name, dataset_path, epochs) ==
    /\ caller[c].pc = "idle"
    /\ calls < MaxCalls
    /\ \/ Len(heap) + InFlight < MaxJobs
       \/ Strip(model_name) = ""
       \/ model_name \in DOMAIN trained_models
       \/ ~validate_dataset(dataset_path).ok
    /\ epochs + EpochsUsed <= MaxEpochs
    /\ calls' = calls + 1
    /\ IF Strip(model_name) = ""
       THEN /\ response' = Reply("start_training", FALSE, "Model name is required")
            /\ UNCHANGED caller
       ELSE IF model_name \in DOMAIN trained_models
       THEN /\ response' = Reply("start_training", FALSE, "Model already exists")
            /\ UNCHANGED caller
       ELSE /\ caller' = [caller EXCEPT ![c] =
                            [IdleCaller EXCEPT !.pc = "capacity", !.op = "start_training",
                                               !.model_name = model_name,
                                               !.dataset_path = dataset_path,
                                               !.epochs = epochs]]
            /\ UNCHANGED response
    /\ UNCHANGED <<max_concurrent_jobs, now, heap, training_jobs, trained_models,
                   active_jobs, jobs_file, models_file, worker, exports, restarts>>

\* a capacity check that counts the call before it tests the ceiling, and so
\* leaves active_jobs raised when it rejects
start_training_counts_first(c) ==
    /\ caller[c].pc = "capacity"
    /\ active_jobs' = active_jobs + 1
    /\ IF active_jobs + 1 > max_concurrent_jobs
       THEN /\ response' = Reply("start_training", FALSE, "Maximum concurrent jobs reached")
            /\ caller' = [caller EXCEPT ![c] = IdleCaller]
       ELSE /\ caller' = [caller EXCEPT ![c].pc = "job_id"]
            /\ UNCHANGED response
    /\ UNCHANGED <<max_concurrent_jobs, now, heap, training_jobs, trained_models,
                   jobs_file, models_file, worker, calls, exports, restarts>>

\* lines 199-200: the capacity check
start_training_capacity(c) ==
    /\ caller[c].pc = "capacity"
    /\ IF active_jobs >= max_concurrent_jobs
       THEN /\ response' = Reply("start_training", FALSE, "Maximum concurrent jobs reached")
            /\ caller' = [caller EXCEPT ![c] = IdleCaller]
       ELSE /\ caller' = [caller EXCEPT ![c].pc = "job_id"]
            /\ UNCHANGED response
    /\ UNCHANGED <<max_concurrent_jobs, now, heap, training_jobs, trained_models,
                   active_jobs, jobs_file, models_file, worker, calls, exports, restarts>>

\* lines 203-208: validate the dataset, then
\* job_id = f"job_{int(time.time())}_{len(self.training_jobs)}"
start_training_job_id(c) ==
    /\ caller[c].pc = "job_id"
    /\ IF ~validate_dataset(caller[c].dataset_path).ok
       THEN /\ response' = Reply("start_training", FALSE, "Dataset validation failed")
            /\ caller' = [caller EXCEPT ![c] = IdleCaller]
            /\ UNCHANGED now
       ELSE /\ \E t \in now..MaxTime :
                  /\ now' = t
                  /\ caller' = [caller EXCEPT ![c].pc = "insert",
                                              ![c].job_id = <<t, Cardinality(DOMAIN training_jobs)>>]
            /\ UNCHANGED response
    /\ UNCHANGED <<max_concurrent_jobs, heap, training_jobs, trained_models,
                   active_jobs, jobs_file, models_file, worker, calls, exports, restarts>>

\* lines 210-228: build the job, self.training_jobs[job_id] = job, and the read of
\* self.active_jobs in `self.active_jobs += 1`
start_training_insert(c) ==
    /\ caller[c].pc = "insert"
    /\ heap' = Append(heap, NewJob(caller[c].job_id, caller[c].model_name,
                                   caller[c].dataset_path, caller[c].epochs))
    /\ training_jobs' = (caller[c].job_id :> (Len(heap) + 1)) @@ training_jobs
    /\ worker' = Append(worker, UnbornWorker)
    /\ caller' = [caller EXCEPT ![c].pc = "spawn", ![c].job = Len(heap) + 1,
                                ![c].tmp = active_jobs]
    /\ UNCHANGED <<max_concurrent_jobs, now, trained_models, active_jobs,
                   jobs_file, models_file, calls, response, exports, restarts>>

\* line 228, the write of `self.active_jobs += 1`, and line 231: thread.start()
start_training_spawn(c) ==
    /\ caller[c].pc = "spawn"
    /\ active_jobs' = caller[c].tmp + 1
    /\ worker' = [worker EXCEPT ![caller[c].job].pc = "start"]
    /\ caller' = [caller EXCEPT ![c].pc = "save_jobs", ![c].tmp = 0]
    /\ UNCHANGED <<max_concurrent_jobs, now, heap, training_jobs, trained_models,
                   jobs_file, models_file, calls, response, exports, restarts>>

----------------------------------------------------------------------------
(* _save_state, as run by a request thread *)

\* line 106: jobs_data
save_state_jobs_data(c) ==
    /\ caller[c].pc = "save_jobs"
    /\ caller' = [caller EXCEPT ![c].pc = "write_jobs", ![c].jobs_data = SnapshotJobs]
    /\ UNCHANGED <<max_concurrent_jobs, now, heap, training_jobs, trained_models,
                   active_jobs, jobs_file, models_file, worker, calls, response, exports, restarts>>

\* lines 107-112: json.dump(jobs_data), then models_data
save_state_write_jobs(c) ==
    /\ caller[c].pc = "write_jobs"
    /\ jobs_file' = [exists |-> TRUE, data |-> DumpJobs(caller[c].jobs_data)]
    /\ caller' = [caller EXCEPT ![c].pc = "write_models", ![c].jobs_data = EmptyList,
                                ![c].models_data = SnapshotModels]
    /\ UNCHANGED <<max_concurrent_jobs, now, heap, training_jobs, trained_models,
                   active_jobs, models_file, worker, calls, response, exports, restarts>>

\* lines 113-114: json.dump(models_data); the operation then returns success
\* (lines 235, 421, 439)
save_state_write_models(c) ==
    /\ caller[c].pc = "write_models"
    /\ models_file' = [exists |-> TRUE, data |-> DumpModels(caller[c].models_data)]
    /\ response' = Reply(caller[c].op, TRUE, "success")
    /\ caller' = [caller EXCEPT ![c] = IdleCaller]
    /\ UNCHANGED <<max_concurrent_jobs, now, heap, training_jobs, trained_models,
                   active_jobs, jobs_file, worker, calls, exports, restarts>>

----------------------------------------------------------------------------
(* cancel_training *)

\* lines 409-414: the call; fetch the job and test its status
cancel_training_check(c, job_id) ==
    /\ caller[c].pc = "idle"
    /\ calls < MaxCalls
    /\ calls' = calls + 1
    /\ IF job_id \notin DOMAIN training_jobs
       THEN /\ response' = Reply("cancel_training", FALSE, "Job not found")
            /\ UNCHANGED caller
       ELSE IF JobOf(job_id).status \notin {"pending", "training"}
       THEN /\ response' = Reply("cancel_training", FALSE, "Cannot cancel job with status")
            /\ UNCHANGED caller
       ELSE /\ caller' = [caller EXCEPT ![c] =
                            [IdleCaller EXCEPT !.pc = "cancel", !.op = "cancel_training",
                                               !.job_id = job_id,
                                               !.job = training_jobs[job_id]]]
            /\ UNCHANGED response
    /\ UNCHANGED <<max_concurrent_jobs, now, heap, training_jobs, trained_models,
                   active_jobs, jobs_file, models_file, worker, exports, restarts>>

\* a cancellation that marks the job and writes no log line
cancel_training_silent(c) ==
    /\ caller[c].pc = "cancel"
    /\ heap' = SetJob(heap, caller[c].job, "status", "cancelled")
    /\ caller' = [caller EXCEPT ![c].pc = "save_jobs"]
    /\ UNCHANGED <<max_concurrent_jobs, now, training_jobs, trained_models,
                   active_jobs, jobs_file, models_file, worker, calls, response, exports, restarts>>

\* lines 416-417: job.status = 'cancelled' and the log line
cancel_training_set(c) ==
    /\ caller[c].pc = "cancel"
    /\ heap' = AppendLog(SetJob(heap, caller[c].job, "status", "cancelled"),
                         caller[c].job, LogLine("cancelled", 0, 0))
    /\ caller' = [caller EXCEPT ![c].pc = "save_jobs"]
    /\ UNCHANGED <<max_concurrent_jobs, now, training_jobs, trained_models,
                   active_jobs, jobs_file, models_file, worker, calls, response, exports, restarts>>

----------------------------------------------------------------------------
(* delete_model *)

\* lines 425-427: the call; fetch the model
delete_model_check(c, model_name) ==
    /\ caller[c].pc = "idle"
    /\ calls < MaxCalls
    /\ calls' = calls + 1
    /\ IF model_name \notin DOMAIN trained_models
       THEN /\ response' = Reply("delete_model", FALSE, "Model not found")
            /\ UNCHANGED caller
       ELSE /\ caller' = [caller EXCEPT ![c] =
                            [IdleCaller EXCEPT !.pc = "delete", !.op = "delete_model",
                                               !.model_name = model_name]]
            /\ UNCHANGED response
    /\ UNCHANGED <<max_concurrent_jobs, now, heap, training_jobs, trained_models,
                   active_jobs, jobs_file, models_file, worker, exports, restarts>>

\* a removal that also writes a line into the logs of the job that trained the model
delete_model_logged(c) ==
    /\ caller[c].pc = "delete"
    /\ caller[c].model_name \in DOMAIN trained_models
    /\ trained_models' = [n \in DOMAIN trained_models \ {caller[c].model_name}
                            |-> trained_models[n]]
    /\ heap' = AppendLog(heap, training_jobs[trained_models[caller[c].model_name].training_job_id],
                         LogLine("deleted", 0, 0))
    /\ caller' = [caller EXCEPT ![c].pc = "save_jobs"]
    /\ UNCHANGED <<max_concurrent_jobs, now, training_jobs, active_jobs, jobs_file,
                   models_file, worker, calls, response, exports, restarts>>

\* lines 431-435: remove the file and `del self.trained_models[model_name]`; a
\* KeyError (the entry went away meanwhile) is caught at line 441 and the call returns
delete_model_remove(c) ==
    /\ caller[c].pc = "delete"
    /\ IF caller[c].model_name \in DOMAIN trained_models
       THEN /\ trained_models' = [n \in DOMAIN trained_models \ {caller[c].model_name}
                                    |-> trained_models[n]]
            /\ caller' = [caller EXCEPT ![c].pc = "save_jobs"]
            /\ UNCHANGED response
       ELSE /\ response' = Reply("delete_model", FALSE, "Error deleting model")
            /\ caller' = [caller EXCEPT ![c] = IdleCaller]
            /\ UNCHANGED trained_models
    /\ UNCHANGED <<max_concurrent_jobs, now, heap, training_jobs,
                   active_jobs, jobs_file, models_file, worker, calls, exports, restarts>>

----------------------------------------------------------------------------
(* export_model *)

ExportFormats == {"zip", "exe"}

\* lines 446-462: fetch the model, write the export file and return; the format is
\* used as the file extension and is not examined; open() or write() may raise
\* (written = FALSE)
export_model(c, model_name, export_format, written) ==
    /\ caller[c].pc = "idle"
    /\ calls < MaxCalls
    /\ calls' = calls + 1
    /\ IF model_name \notin DOMAIN trained_models
       THEN /\ response' = Reply("export_model", FALSE, "Model not found")
            /\ UNCHANGED exports
       ELSE IF written
       THEN /\ response' = Reply("export_model", TRUE, "success")
            /\ exports' = exports \cup {<<model_name, export_format>>}
       ELSE /\ response' = Reply("export_model", FALSE, "Export failed")
            /\ UNCHANGED exports
    /\ UNCHANGED <<max_concurrent_jobs, now, heap, training_jobs, trained_models,
                   active_jobs, jobs_file, models_file, caller, worker, restarts>>

----------------------------------------------------------------------------
(* The process ends (its request threads and its daemon worker threads with it)
   and a new ModelTrainerAPI is constructed on the same directories *)

\* the index of the last object of objs whose field `key` is v
LastWith(objs, key, v) ==
    CHOOSE k \in 1..Len(objs) :
        /\ objs[k][key] = v
        /\ \A j \in 1..Len(objs) : objs[j][key] = v => j <= k

\* a construction that resolves the jobs the catalog holds as unfinished: it loads
\* them as failed
load_state_resolving ==
    /\ restarts < MaxRestarts
    /\ jobs_file.exists
    /\ restarts' = restarts + 1
    /\ LET loaded == LoadJobs(jobs_file.data)
           jobs == [k \in 1..Len(loaded) |->
                       IF loaded[k].status \in Terminal THEN loaded[k]
                       ELSE [loaded[k] EXCEPT !.status = "failed"]]
           models == IF models_file.exists THEN LoadModels(models_file.data) ELSE <<>>
       IN
       /\ heap' = jobs
       /\ training_jobs' = [id \in {jobs[k].id : k \in 1..Len(jobs)} |->
                               LastWith(jobs, "id", id)]
       /\ trained_models' = [n \in {models[k].name : k \in 1..Len(models)} |->
                                models[LastWith(models, "name", n)]]
       /\ worker' = [k \in 1..Len(jobs) |-> NoWorker]
    /\ active_jobs' = 0
    /\ caller' = [c \in Callers |-> IdleCaller]
    /\ running' = 0
    /\ response' = NoReply
    /\ UNCHANGED <<max_concurrent_jobs, now, jobs_file, models_file, calls, preemptions,
                   exports>>

\* lines 70-77 and 79-99: __init__ and _load_state.  On directories that hold no
\* catalog yet the construction gives the initial state again, which Init covers.
load_state ==
    /\ restarts < MaxRestarts
    /\ jobs_file.exists
    /\ restarts' = restarts + 1
    /\ LET jobs == IF jobs_file.exists THEN LoadJobs(jobs_file.data) ELSE <<>>
           models == IF models_file.exists THEN LoadModels(models_file.data) ELSE <<>>
       IN
       /\ heap' = jobs
       /\ training_jobs' = [id \in {jobs[k].id : k \in 1..Len(jobs)} |->
                               LastWith(jobs, "id", id)]
       /\ trained_models' = [n \in {models[k].name : k \in 1..Len(models)} |->
                                models[LastWith(models, "name", n)]]
       /\ worker' = [k \in 1..Len(jobs) |-> NoWorker]
    /\ active_jobs' = 0
    /\ caller' = [c \in Callers |-> IdleCaller]
    /\ running' = 0
    /\ response' = NoReply
    /\ UNCHANGED <<max_concurrent_jobs, now, jobs_file, models_file, calls, preemptions,
                   exports>>

----------------------------------------------------------------------------
(* _simulate_training.training_worker; worker i was spawned with job_id = heap[i].id *)

Workers == 1..Len(worker)

\* the loop position after one more step: <<epoch, step, loop is over>>
NextPosition(epoch, step, epochs) ==
    IF step + 1 < StepsPerEpoch THEN <<epoch, step + 1, FALSE>>
    ELSE <<epoch + 1, 0, epoch + 1 >= epochs>>

\* lines 240-249: fetch the job, job.status = 'training', the log line, range(job.epochs)
worker_start(i) ==
    /\ worker[i].pc = "start"
    /\ LET a == training_jobs[heap[i].id] IN
       /\ heap' = AppendLog(SetJob(heap, a, "status", "training"), a, LogLine("started", 0, 0))
       /\ worker' = [worker EXCEPT ![i].job = a,
                                   ![i].pc = IF heap[a].epochs = 0 THEN "completed" ELSE "check"]
    /\ UNCHANGED <<max_concurrent_jobs, now, training_jobs, trained_models,
                   active_jobs, jobs_file, models_file, caller, calls, response, exports, restarts>>

\* lines 251-254: the cancellation check, then time.sleep(0.5)
worker_check(i) ==
    /\ worker[i].pc = "check"
    /\ worker' = [worker EXCEPT ![i].pc = IF heap[worker[i].job].status = "cancelled"
                                          THEN "release" ELSE "step"]
    /\ UNCHANGED <<max_concurrent_jobs, now, heap, training_jobs, trained_models,
                   active_jobs, jobs_file, models_file, caller, calls, response, exports, restarts>>

\* lines 255-259: job.progress and, every third step, a log line
worker_step(i) ==
    /\ worker[i].pc = "step"
    /\ LET a == worker[i].job
           epoch == worker[i].epoch
           step == worker[i].step
           h1 == SetJob(heap, a, "progress",
                        Progress(epoch * StepsPerEpoch + step + 1, heap[a].epochs * StepsPerEpoch))
           pos == NextPosition(epoch, step, heap[a].epochs)
       IN
       /\ heap' = IF step % LogEvery = 0
                  THEN AppendLog(h1, a, LogLine("step", epoch + 1, step + 1))
                  ELSE h1
       /\ worker' = [worker EXCEPT ![i].epoch = pos[1], ![i].step = pos[2],
                                   ![i].pc = IF pos[3] THEN "completed" ELSE "check"]
    /\ UNCHANGED <<max_concurrent_jobs, now, training_jobs, trained_models,
                   active_jobs, jobs_file, models_file, caller, calls, response, exports, restarts>>

\* line 262: job.status = 'completed'
worker_completed(i) ==
    /\ worker[i].pc = "completed"
    /\ heap' = SetJob(heap, worker[i].job, "status", "completed")
    /\ worker' = [worker EXCEPT ![i].pc = "end_time"]
    /\ UNCHANGED <<max_concurrent_jobs, now, training_jobs, trained_models,
                   active_jobs, jobs_file, models_file, caller, calls, response, exports, restarts>>

\* line 263: job.end_time = datetime.now().isoformat()
worker_end_time(i) ==
    /\ worker[i].pc = "end_time"
    /\ heap' = SetJob(heap, worker[i].job, "end_time", Some(now))
    /\ worker' = [worker EXCEPT ![i].pc = "progress"]
    /\ UNCHANGED <<max_concurrent_jobs, now, training_jobs, trained_models,
                   active_jobs, jobs_file, models_file, caller, calls, response, exports, restarts>>

\* lines 264-265: job.progress = 100 and the log line
worker_progress(i) ==
    /\ worker[i].pc = "progress"
    /\ heap' = AppendLog(SetJob(heap, worker[i].job, "progress", 100),
                         worker[i].job, LogLine("completed", 0, 0))
    /\ worker' = [worker EXCEPT ![i].pc = "model"]
    /\ UNCHANGED <<max_concurrent_jobs, now, training_jobs, trained_models,
                   active_jobs, jobs_file, models_file, caller, calls, response, exports, restarts>>

\* lines 268-282: self.trained_models[job.model_name] = model_info
worker_model(i) ==
    /\ worker[i].pc = "model"
    /\ LET job == heap[worker[i].job] IN
       trained_models' = (job.model_name :> NewModel(job, heap[i].id)) @@ trained_models
    /\ worker' = [worker EXCEPT ![i].pc = "model_file"]
    /\ UNCHANGED <<max_concurrent_jobs, now, heap, training_jobs,
                   active_jobs, jobs_file, models_file, caller, calls, response, exports, restarts>>

\* lines 285-286: the model file is written; open() or write() may raise
\* (written = FALSE), which takes the worker to the except branch
worker_model_file(i, written) ==
    /\ worker[i].pc = "model_file"
    /\ worker' = [worker EXCEPT ![i].pc = IF written THEN "release" ELSE "failed"]
    /\ UNCHANGED <<max_concurrent_jobs, now, heap, training_jobs, trained_models,
                   active_jobs, jobs_file, models_file, caller, calls, response, exports, restarts>>

\* line 289: job.status = 'failed'
worker_failed(i) ==
    /\ worker[i].pc = "failed"
    /\ heap' = SetJob(heap, worker[i].job, "status", "failed")
    /\ worker' = [worker EXCEPT ![i].pc = "error_message"]
    /\ UNCHANGED <<max_concurrent_jobs, now, training_jobs, trained_models,
                   active_jobs, jobs_file, models_file, caller, calls, response, exports, restarts>>

\* lines 290-292: job.error_message = str(e) and the log line
worker_error_message(i) ==
    /\ worker[i].pc = "error_message"
    /\ heap' = AppendLog(SetJob(heap, worker[i].job, "error_message", Some("OSError")),
                         worker[i].job, LogLine("failed", 0, 0))
    /\ worker' = [worker EXCEPT ![i].pc = "release"]
    /\ UNCHANGED <<max_concurrent_jobs, now, training_jobs, trained_models,
                   active_jobs, jobs_file, models_file, caller, calls, response, exports, restarts>>

\* line 295, the read of `self.active_jobs -= 1`
worker_release(i) ==
    /\ worker[i].pc = "release"
    /\ worker' = [worker EXCEPT ![i].pc = "released", ![i].tmp = active_jobs]
    /\ UNCHANGED <<max_concurrent_jobs, now, heap, training_jobs, trained_models,
                   active_jobs, jobs_file, models_file, caller, calls, response, exports, restarts>>

\* line 295, the write of `self.active_jobs -= 1`
worker_released(i) ==
    /\ worker[i].pc = "released"
    /\ active_jobs' = worker[i].tmp - 1
    /\ worker' = [worker EXCEPT ![i].pc = "save_jobs", ![i].tmp = 0]
    /\ UNCHANGED <<max_concurrent_jobs, now, heap, training_jobs, trained_models,
                   jobs_file, models_file, caller, calls, response, exports, restarts>>

\* line 296 -> line 106
worker_save_jobs_data(i) ==
    /\ worker[i].pc = "save_jobs"
    /\ worker' = [worker EXCEPT ![i].pc = "write_jobs", ![i].jobs_data = SnapshotJobs]
    /\ UNCHANGED <<max_concurrent_jobs, now, heap, training_jobs, trained_models,
                   active_jobs, jobs_file, models_file, caller, calls, response, exports, restarts>>

\* line 296 -> lines 107-112
worker_write_jobs(i) ==
    /\ worker[i].pc = "write_jobs"
    /\ jobs_file' = [exists |-> TRUE, data |-> DumpJobs(worker[i].jobs_data)]
    /\ worker' = [worker EXCEPT ![i].pc = "write_models", ![i].jobs_data = EmptyList,
                                ![i].models_data = SnapshotModels]
    /\ UNCHANGED <<max_concurrent_jobs, now, heap, training_jobs, trained_models,
                   active_jobs, models_file, caller, calls, response, exports, restarts>>

\* line 296 -> lines 113-114; the thread then ends
worker_write_models(i) ==
    /\ worker[i].pc = "write_models"
    /\ models_file' = [exists |-> TRUE, data |-> DumpModels(worker[i].models_data)]
    /\ worker' = [worker EXCEPT ![i].pc = "done", ![i].models_data = EmptyList]
    /\ UNCHANGED <<max_concurrent_jobs, now, heap, training_jobs, trained_models,
                   active_jobs, jobs_file, caller, calls, response, exports, restarts>>

----------------------------------------------------------------------------
(* The system *)

start_training(c) ==
    \/ \E n \in ModelNames, p \in DatasetPaths, e \in EpochsValues :
          start_training_names(c, n, p, e)
    \/ start_training_capacity(c)
    \/ start_training_job_id(c)
    \/ start_training_insert(c)
    \/ start_training_spawn(c)

cancel_training(c) ==
    \/ \E id \in DOMAIN training_jobs \cup {UnknownId} : cancel_training_check(c, id)
    \/ cancel_training_set(c)

delete_model(c) ==
    \/ \E n \in ModelNames : delete_model_check(c, n)
    \/ delete_model_remove(c)

save_state(c) ==
    \/ save_state_jobs_data(c)
    \/ save_state_write_jobs(c)
    \/ save_state_write_models(c)

training_worker(i) ==
    \/ worker_start(i)
    \/ worker_check(i)
    \/ worker_step(i)
    \/ worker_completed(i)
    \/ worker_end_time(i)
    \/ worker_progress(i)
    \/ worker_model(i)
    \/ \E written \in BOOLEAN : worker_model_file(i, written)
    \/ worker_failed(i)
    \/ worker_error_message(i)
    \/ worker_release(i)
    \/ worker_released(i)
    \/ worker_save_jobs_data(i)
    \/ worker_write_jobs(i)
    \/ worker_write_models(i)

(***************************************************************************)
(* The scheduler.  A thread runs until its operation returns, its thread   *)
(* ends, it sleeps (time.sleep at line 254) or it waits for the model file *)
(* to be opened and written (line 285), and any thread may run next;       *)
(* besides, the interpreter may switch away from a thread between any two  *)
(* statements, which the model allows MaxPreemptions times a run.          *)
(***************************************************************************)
Preempts(t) == running \notin {0, t}

\* the request threads are interchangeable: a call is taken by the idle thread of
\* the lowest index
TakesCall(c) == caller[c].pc = "idle" => \A d \in Callers : d < c => caller[d].pc # "idle"

caller_thread(c) ==
    /\ TakesCall(c)
    /\ Preempts(c) => preemptions < MaxPreemptions
    /\ preemptions' = IF Preempts(c) THEN preemptions + 1 ELSE preemptions
    /\ running' = IF caller'[c].pc = "idle" THEN 0 ELSE c

worker_thread(i) ==
    /\ Preempts(NumCallers + i) => preemptions < MaxPreemptions
    /\ preemptions' = IF Preempts(NumCallers + i) THEN preemptions + 1 ELSE preemptions
    /\ running' = IF worker'[i].pc \in {"step", "model_file", "done"}
                  THEN 0 ELSE NumCallers + i

Next ==
    \/ \E c \in Callers : start_training(c) /\ caller_thread(c)
    \/ \E c \in Callers : cancel_training(c) /\ caller_thread(c)
    \/ \E c \in Callers : delete_model(c) /\ caller_thread(c)
    \/ \E c \in Callers, n \in ModelNames, f \in ExportFormats, written \in BOOLEAN :
          export_model(c, n, f, written) /\ caller_thread(c)
    \/ \E c \in Callers : save_state(c) /\ caller_thread(c)
    \/ \E i \in Workers : training_worker(i) /\ worker_thread(i)
    \/ load_state

Spec == Init /\ [][Next]_vars

----------------------------------------------------------------------------
(* Properties *)

Jobs == 1..Len(heap)

\* the job objects whose status is not terminal
NonTerminal == {a \in Jobs : heap[a].status \notin Terminal}

\* the workers that were started and have not ended
LiveWorkers == {i \in Workers : worker[i].pc \notin {"unborn", "done", "none"}}

\* no request is in progress and every worker thread has ended
Settled ==
    /\ \A c \in Callers : caller[c].pc = "idle"
    /\ \A i \in Workers : worker[i].pc \in {"done", "none"}

\* a cancel_training call on the object at address a went through (line 417 wrote
\* its log line) and has returned
CancelSucceeded(a) ==
    /\ \E k \in 1..Len(heap[a].logs) : heap[a].logs[k][1] = "cancelled"
    /\ \A c \in Callers : ~(caller[c].op = "cancel_training" /\ caller[c].job = a)

\* the job at address a is completed and its worker has not reached line 282 yet,
\* so that no delete_model can have removed its ModelInfo
CompletedNotRegistered(a) ==
    /\ heap[a].status = "completed"
    /\ \E i \in Workers : worker[i].job = a /\ worker[i].pc \in {"end_time", "progress", "model"}

\* this step is a step of the running process, not its end and a new construction
SameProcess == restarts' = restarts

\* what a rejected start_training must leave alone
Durable == <<heap, training_jobs, trained_models, active_jobs, jobs_file, models_file, worker>>

\* this step is the return of a rejected start_training
StartRejected ==
    /\ response'.op = "start_training" /\ ~response'.success
    /\ \/ calls' = calls + 1 /\ caller' = caller
       \/ \E c \in Callers : caller[c].pc \in {"capacity", "job_id"} /\ caller'[c].pc = "idle"

\* this step is one of the checks of start_training (lines 193-205), passed or not
StartChecked ==
    \/ StartRejected
    \/ \E c \in Callers : /\ caller[c].pc \in {"idle", "capacity", "job_id"}
                          /\ caller'[c].pc \in {"capacity", "job_id", "insert"}
                          /\ caller'[c].pc # caller[c].pc

\* C1: once the status of a job is completed, failed or cancelled, no step changes it.
C1_TerminalAbsorbing ==
    [][SameProcess =>
       \A a \in Jobs : heap[a].status \in Terminal => heap'[a].status = heap[a].status]_vars

\* C2: a job whose cancel_training returned success is, once every thread has run to
\* its end, cancelled, without error_message and without a ModelInfo naming its id.
C2_CancelIsFinal ==
    \A a \in Jobs :
        (CancelSucceeded(a) /\ Settled) =>
            /\ heap[a].status = "cancelled"
            /\ heap[a].error_message = None
            /\ \A n \in DOMAIN trained_models : trained_models[n].training_job_id # heap[a].id

\* C3: in every state, end_time is set iff the status is terminal.
C3_EndTimeIffTerminal ==
    \A a \in Jobs : (heap[a].end_time # None) <=> (heap[a].status \in Terminal)

\* C4: in every state, error_message is set iff the status is failed.
C4_ErrorMessageIffFailed ==
    \A a \in Jobs : (heap[a].error_message # None) <=> (heap[a].status = "failed")

\* C5: the number of live workers never exceeds config.max_concurrent_jobs.
C5_CeilingRespected ==
    Cardinality(LiveWorkers) <= max_concurrent_jobs

\* C6: the capacity check of start_training rejects exactly when the number of jobs
\* with a non-terminal status is at or above the ceiling.
C6_CapacityFollowsStatus ==
    [][SameProcess =>
       \A c \in Callers :
          (caller[c].pc = "capacity" /\ caller'[c].pc # "capacity") =>
              ((caller'[c].pc = "idle") <=> (Cardinality(NonTerminal) >= max_concurrent_jobs))]_vars

\* C7: a rejected start_training, at each of its checks and at its return, leaves
\* training_jobs, the job objects, trained_models, active_jobs, both catalog files
\* and the worker threads as they were.
C7_RejectionChangesNothing ==
    [][(SameProcess /\ StartChecked) => UNCHANGED Durable]_vars

\* C7 (witness): a start_training was rejected for capacity while a job was on record
\* in memory and on disk.
C7_RejectedAtCapacity ==
    /\ response = Reply("start_training", FALSE, "Maximum concurrent jobs reached")
    /\ Jobs # {}
    /\ jobs_file.exists
    /\ active_jobs > 0

\* C8: no start_training passes the duplicate check (line 196) for a name while a job
\* of that name is completed and its model was not deleted.
C8_DuplicateOnceCompleted ==
    [][SameProcess =>
       \A c \in Callers :
          (caller[c].pc = "idle" /\ caller'[c].pc = "capacity") =>
              ~\E a \in Jobs : /\ heap[a].model_name = caller'[c].model_name
                               /\ CompletedNotRegistered(a)]_vars

\* C9: the job objects created in one process lifetime have pairwise different ids.
C9_JobIdsUnique ==
    \A a, b \in Jobs : a # b => heap[a].id # heap[b].id

\* C10: the first record written to the jobs catalog for a job id has status pending,
\* and when start_training returns success the catalog holds the record of its job.
C10_PendingPersistedFirst ==
    [][SameProcess =>
       /\ \A id \in FileJobIds(jobs_file'.data) \ FileJobIds(jobs_file.data) :
              FileJob(jobs_file'.data, id).status = "pending"
       /\ \A c \in Callers :
              (caller[c].op = "start_training" /\ caller[c].pc = "write_models"
                                               /\ caller'[c].pc = "idle") =>
                  caller[c].job_id \in FileJobIds(jobs_file'.data)]_vars

\* this step is the return of a rejected cancel_training
CancelRejected ==
    /\ response'.op = "cancel_training" /\ ~response'.success
    /\ calls' = calls + 1 /\ caller' = caller

\* the number of cancellation lines (line 417) in the logs of the job at address a
RECURSIVE CountCancelled(_)
CountCancelled(logs) ==
    IF logs = <<>> THEN 0
    ELSE (IF Head(logs)[1] = "cancelled" THEN 1 ELSE 0) + CountCancelled(Tail(logs))

\* C11: cancel_training answers "not found" for an unknown id and "cannot cancel" for
\* a job whose status is terminal, changing nothing in either case; for a job that is
\* pending or training (the only non-terminal statuses this code ever sets) it marks
\* the job cancelled, appends exactly one log line, touches no other job and returns
\* success; no step of it waits for the worker.
C11_CancelOutcomes ==
    [][SameProcess =>
       /\ CancelRejected => UNCHANGED Durable
       /\ \A c \in Callers :
            /\ \A id \in DOMAIN training_jobs \cup {UnknownId} :
                  cancel_training_check(c, id) =>
                     IF id \notin DOMAIN training_jobs
                     THEN response' = Reply("cancel_training", FALSE, "Job not found")
                     ELSE IF JobOf(id).status \in Terminal
                     THEN response' = Reply("cancel_training", FALSE,
                                            "Cannot cancel job with status")
                     ELSE /\ caller'[c].pc = "cancel"
                          /\ caller'[c].job = training_jobs[id]
                          /\ UNCHANGED Durable
            /\ (caller[c].pc = "cancel" /\ caller'[c].pc # "cancel") =>
                  LET a == caller[c].job IN
                  /\ heap'[a].status = "cancelled"
                  /\ heap'[a].logs = Append(heap[a].logs, LogLine("cancelled", 0, 0))
                  /\ CountCancelled(heap'[a].logs) = CountCancelled(heap[a].logs) + 1
                  /\ heap' = [heap EXCEPT ![a].status = heap'[a].status,
                                          ![a].logs = heap'[a].logs]
                  /\ UNCHANGED <<training_jobs, trained_models, active_jobs, worker>>
            /\ (caller[c].op = "cancel_training" /\ caller[c].pc = "write_models"
                                                 /\ caller'[c].pc = "idle") =>
                  response' = Reply("cancel_training", TRUE, "success")]_vars

\* C11 (witness): a cancel_training has returned success on a job whose worker is
\* still asleep in its step.
C11_CancelledWhileWorkerRuns ==
    /\ response = Reply("cancel_training", TRUE, "success")
    /\ \E a \in Jobs : /\ heap[a].status = "cancelled"
                       /\ CountCancelled(heap[a].logs) = 1
                       /\ \E i \in Workers : worker[i].job = a /\ worker[i].pc = "step"

\* C12: however cancel_training calls on one job interleave with each other and with
\* the worker, the job's logs hold at most one cancellation line (every call that
\* returns success wrote one, so at most one call succeeds).
C12_CancelledAtMostOnce ==
    \A a \in Jobs : CountCancelled(heap[a].logs) <= 1

\* C14: in every state, every ModelInfo of trained_models names, as training_job_id,
\* a job of training_jobs whose status is completed.
C14_RegistryFromCompleted ==
    \A n \in DOMAIN trained_models :
        /\ trained_models[n].training_job_id \in DOMAIN training_jobs
        /\ JobOf(trained_models[n].training_job_id).status = "completed"

\* C17: in no state is a job completed with its end_time unset or its progress not 100.
C17_NoTornCompletion ==
    \A a \in Jobs :
        heap[a].status = "completed" => (heap[a].end_time # None /\ heap[a].progress = 100)

\* the logs hold a line of the given kind
HasLine(logs, kind) == \E k \in 1..Len(logs) : logs[k][1] = kind

\* the job at address a was never cancelled and no worker met an error on it
Undisturbed(a) ==
    /\ ~HasLine(heap[a].logs, "cancelled")
    /\ ~HasLine(heap[a].logs, "failed")
    /\ \A i \in Workers : worker[i].job = a => worker[i].pc \notin {"failed", "error_message"}

\* the order of statuses of a job that runs to its end
HappyPath == {<<"pending", "initializing">>, <<"initializing", "training">>,
              <<"training", "completed">>}

\* C13: a job that is never cancelled and meets no error changes status only along
\* pending, initializing, training, completed; when its worker has ended it is
\* completed with progress 100 and end_time set, and the worker's one insert into
\* trained_models is a ModelInfo with the job's model_name and id.
C13_HappyPathInOrder ==
    [][SameProcess =>
       \A a \in Jobs :
          Undisturbed(a)' =>
             /\ heap'[a].status # heap[a].status =>
                   <<heap[a].status, heap'[a].status>> \in HappyPath
             /\ worker'[a].pc = "done" =>
                   /\ heap'[a].status = "completed"
                   /\ heap'[a].progress = 100
                   /\ heap'[a].end_time # None
             /\ (worker[a].pc = "model" /\ worker'[a].pc # "model") =>
                   /\ heap[a].model_name \in DOMAIN trained_models'
                   /\ trained_models'[heap[a].model_name].name = heap[a].model_name
                   /\ trained_models'[heap[a].model_name].training_job_id = heap[a].id]_vars

\* this step is the removal made by a delete_model(n) that succeeds (line 435)
Deletes(n) ==
    \E c \in Callers : /\ caller[c].pc = "delete" /\ caller[c].model_name = n
                       /\ caller'[c].pc = "save_jobs"

\* C15: a ModelInfo of trained_models stays there, with every field unchanged, over
\* every step that is not the removal made by a successful delete_model of its name.
C15_ModelInfoKept ==
    [][SameProcess =>
       \A n \in DOMAIN trained_models :
          \/ Deletes(n)
          \/ n \in DOMAIN trained_models' /\ trained_models'[n] = trained_models[n]]_vars

\* C16: when the worker's operation has raised, the except branch leaves a job that
\* is cancelled at that moment cancelled and without error_message, and takes any
\* other job to failed with error_message set; the caller of start_training gets
\* nothing of it.
C16_ErrorOutcome ==
    [][SameProcess =>
       \A i \in Workers :
          LET a == worker[i].job IN
          /\ (worker[i].pc = "failed" /\ worker'[i].pc # "failed") =>
                /\ heap'[a].status = IF heap[a].status = "cancelled" THEN "cancelled"
                                                                    ELSE "failed"
                /\ UNCHANGED response
          /\ (worker[i].pc = "error_message" /\ worker'[i].pc # "error_message") =>
                /\ (heap'[a].error_message # None) <=> (heap[a].status # "cancelled")
                /\ UNCHANGED response]_vars

\* C18: over every step at whose two ends a job is training, its progress does not
\* decrease.
C18_ProgressMonotonic ==
    [][SameProcess =>
       \A a \in Jobs :
          (heap[a].status = "training" /\ heap'[a].status = "training") =>
              heap'[a].progress >= heap[a].progress]_vars

\* this step belongs to a delete_model or an export_model call
RegistryStep ==
    \/ calls' = calls + 1 /\ response'.op \in {"delete_model", "export_model"}
                          /\ caller' = caller
    \/ \E c \in Callers : /\ caller'[c] # caller[c]
                          /\ "delete_model" \in {caller[c].op, caller'[c].op}

\* C20: no step of delete_model or export_model changes a TrainingJob, training_jobs,
\* active_jobs or a worker; delete_model of an unknown name answers "not found" and
\* changes nothing; the removal of a successful delete_model(n) leaves no ModelInfo
\* named n, and a start_training whose name has no ModelInfo passes the duplicate check.
C20_RegistryOnly ==
    [][SameProcess =>
       /\ RegistryStep => UNCHANGED <<heap, training_jobs, active_jobs, worker>>
       /\ \A n \in ModelNames : Deletes(n) => n \notin DOMAIN trained_models'
       /\ calls' = calls + 1 =>
            \A c \in Callers, n \in ModelNames \ DOMAIN trained_models :
               /\ delete_model_check(c, n) =>
                     /\ response' = Reply("delete_model", FALSE, "Model not found")
                     /\ UNCHANGED <<Durable, exports>>
               /\ \A p \in DatasetPaths, e \in EpochsValues :
                     (start_training_names(c, n, p, e) /\ Strip(n) # "") =>
                         caller'[c].pc = "capacity"]_vars

\* C20 (witness): a job completed and registered its model, the model was deleted,
\* and a start_training with the same name has passed the duplicate check.
C20_ResubmittedAfterDelete ==
    \E c \in Callers, a \in Jobs :
        /\ caller[c].pc = "capacity" /\ caller[c].model_name = heap[a].model_name
        /\ heap[a].status = "completed" /\ worker[a].pc = "done"
        /\ heap[a].model_name \notin DOMAIN trained_models
        /\ response = Reply("delete_model", TRUE, "success")

\* self.training_jobs as records: job id -> the fields of its TrainingJob
MemoryJobs == [id \in DOMAIN training_jobs |-> heap[training_jobs[id]]]

\* both catalogs hold exactly what a _save_state run in this state writes
JustSaved ==
    /\ jobs_file = [exists |-> TRUE, data |-> DumpJobs(SnapshotJobs)]
    /\ models_file = [exists |-> TRUE, data |-> DumpModels(SnapshotModels)]

\* C19: when no operation is in progress and the catalogs are those a _save_state of
\* the current state writes, a new ModelTrainerAPI built on them has training_jobs
\* and trained_models with the same keys and the same records, field for field.
C19_RoundTrip ==
    [][(~SameProcess /\ Settled /\ JustSaved) =>
          /\ MemoryJobs' = MemoryJobs
          /\ trained_models' = trained_models]_vars

\* C19 (witness): a new ModelTrainerAPI has loaded a failed job, with its end_time,
\* error_message and logs, and the model that job registered.
C19_ReloadedFailedJob ==
    /\ restarts = 1
    /\ Settled /\ JustSaved
    /\ \E a \in Jobs : /\ worker[a].pc = "none"
                       /\ heap[a].status = "failed"
                       /\ heap[a].end_time # None /\ heap[a].error_message # None
                       /\ HasLine(heap[a].logs, "failed")
                       /\ heap[a].model_name \in DOMAIN trained_models

\* the formats export_model is meant to package: 'zip', the default of its signature
SupportedExportFormats == {"zip"}

\* C21: export_model with a format that is not supported fails and writes no export
\* file; with a name that has no ModelInfo it answers "not found"; and no
\* export_model changes trained_models.
C21_ExportRejections ==
    [][SameProcess =>
       (calls' = calls + 1 =>
          \A c \in Callers, n \in ModelNames, f \in ExportFormats, written \in BOOLEAN :
             export_model(c, n, f, written) =>
                /\ UNCHANGED trained_models
                /\ f \notin SupportedExportFormats =>
                      /\ ~response'.success
                      /\ UNCHANGED exports
                /\ n \notin DOMAIN trained_models =>
                      /\ response' = Reply("export_model", FALSE, "Model not found")
                      /\ UNCHANGED exports)]_vars

\* config.training_timeout, in seconds, as read from TRAINING_TIMEOUT=3 (the default is
\* 3600); time.sleep(0.5) of line 254 lasts half a second
training_timeout == 3
SleepsPerSecond == 2

\* the sleeps worker i has finished: a lower bound, in half seconds, of the time its
\* job has been running
Slept(i) == worker[i].epoch * StepsPerEpoch + worker[i].step

\* C22: a worker that has ended after running for longer than config.training_timeout,
\* on a job no cancel_training was applied to, leaves its job cancelled, with a log
\* line that names the timeout and with no ModelInfo of its id.
C22_TimeoutCancels ==
    \A i \in Workers :
        (/\ worker[i].pc = "done"
         /\ Slept(i) > SleepsPerSecond * training_timeout
         /\ ~HasLine(heap[worker[i].job].logs, "cancelled")) =>
            /\ heap[worker[i].job].status = "cancelled"
            /\ HasLine(heap[worker[i].job].logs, "timeout")
            /\ \A n \in DOMAIN trained_models :
                  trained_models[n].training_job_id # heap[worker[i].job].id

\* C23: start_training reports the first check that fails, in the order: blank name,
\* name already in trained_models, capacity, dataset; a check that fails answers with
\* its own message whatever the later checks would say, and a check that passes hands
\* the call to the next one.
C23_FirstFailingCheck ==
    [][SameProcess =>
       /\ calls' = calls + 1 =>
            \A c \in Callers, n \in ModelNames, p \in DatasetPaths, e \in EpochsValues :
               start_training_names(c, n, p, e) =>
                  IF Strip(n) = ""
                  THEN response' = Reply("start_training", FALSE, "Model name is required")
                  ELSE IF n \in DOMAIN trained_models
                  THEN response' = Reply("start_training", FALSE, "Model already exists")
                  ELSE caller'[c].pc = "capacity" /\ UNCHANGED response
       /\ \A c \in Callers :
            /\ (caller[c].pc = "capacity" /\ caller'[c].pc # "capacity") =>
                  IF active_jobs >= max_concurrent_jobs
                  THEN /\ caller'[c].pc = "idle"
                       /\ response' = Reply("start_training", FALSE,
                                            "Maximum concurrent jobs reached")
                  ELSE caller'[c].pc = "job_id" /\ UNCHANGED response
            /\ (caller[c].pc = "job_id" /\ caller'[c].pc # "job_id") =>
                  IF ~validate_dataset(caller[c].dataset_path).ok
                  THEN /\ caller'[c].pc = "idle"
                       /\ response' = Reply("start_training", FALSE,
                                            "Dataset validation failed")
                  ELSE caller'[c].pc = "insert" /\ UNCHANGED response]_vars

\* C23 (witness): a start_training was answered "already exists" while the ceiling was
\* reached as well: the first job's worker has registered its model and still holds
\* its slot, and the second call of the run was the rejected one.
C23_DuplicateBeforeCapacity ==
    /\ response = Reply("start_training", FALSE, "Model already exists")
    /\ calls = 2
    /\ \A c \in Callers : caller[c].pc = "idle"
    /\ active_jobs >= max_concurrent_jobs
    /\ \E i \in Workers : /\ worker[i].pc = "model_file"
                          /\ heap[i].model_name \in DOMAIN trained_models

\* C24: active_jobs is never negative, never above the number of workers that were
\* started and have not ended their release, and 0 once no request is in progress
\* and every worker has ended.
C24_CounterReleasedOnce ==
    /\ active_jobs >= 0
    /\ active_jobs <= Cardinality({i \in Workers :
                          worker[i].pc \notin {"unborn", "none", "save_jobs", "write_jobs",
                                               "write_models", "done"}})
    /\ Settled => active_jobs = 0

\* cancel_training has marked the job object at address a (lines 416-417)
CancelMarked(a) == HasLine(heap[a].logs, "cancelled")

\* C25: a worker whose job cancel_training has marked starts no training step: from
\* its first statement it goes to its exit without touching the status, and from the
\* check at the top of a step it goes to its exit.
C25_NoStepAfterCancel ==
    [][SameProcess =>
       \A i \in Workers :
          /\ (worker[i].pc = "start" /\ worker'[i].pc # "start"
                                     /\ CancelMarked(training_jobs[heap[i].id])) =>
                /\ worker'[i].pc = "release"
                /\ heap'[training_jobs[heap[i].id]].status = "cancelled"
          /\ (worker[i].pc = "check" /\ worker'[i].pc # "check"
                                     /\ CancelMarked(worker[i].job)) =>
                worker'[i].pc = "release"]_vars

\* C26: when the worker of an admitted job ends, the status of its job is completed,
\* failed or cancelled.
C26_ExitsTerminal ==
    [][SameProcess =>
       \A i \in Workers :
          (worker[i].pc # "done" /\ worker'[i].pc = "done") =>
              heap'[worker[i].job].status \in Terminal]_vars

\* C27: once no request is in progress and every worker has ended, the jobs catalog
\* and the models catalog hold the records of training_jobs and trained_models.
C27_CatalogsCurrentAtRest ==
    Settled =>
        /\ jobs_file.data = DumpJobs(SnapshotJobs)
        /\ models_file.data = DumpModels(SnapshotModels)

\* the sequence p is the beginning of the sequence q
IsPrefix(p, q) == Len(p) <= Len(q) /\ SubSeq(q, 1, Len(p)) = p

\* C28: over every step, the logs of every TrainingJob in memory begin with what they
\* were before the step; the logs of every job of the jobs catalog begin with what
\* the catalog held for that job before the step; and the logs of every job a new
\* ModelTrainerAPI loads begin with what the catalog holds for it.
C28_LogsAppendOnly ==
    [][/\ SameProcess =>
            \A a \in Jobs : IsPrefix(heap[a].logs, heap'[a].logs)
       /\ \A id \in FileJobIds(jobs_file.data) \cap FileJobIds(jobs_file'.data) :
            IsPrefix(FileJob(jobs_file.data, id).logs, FileJob(jobs_file'.data, id).logs)
       /\ ~SameProcess =>
            \A id \in DOMAIN training_jobs' :
               IsPrefix(FileJob(jobs_file.data, id).logs, heap'[training_jobs'[id]].logs)]_vars

----------------------------------------------------------------------------
(* The progress of one job: the state in which start_training('m1', 'train.csv',
   epochs) has returned success on a fresh ModelTrainerAPI, for every number of
   epochs up to MaxProgressEpochs, and from there the worker alone *)

MaxProgressEpochs == 5  \* epochs of the job whose progress is followed

ProgressInit ==
    /\ max_concurrent_jobs \in 1..MaxCeiling
    /\ now = 0
    /\ \E e \in 1..MaxProgressEpochs : heap = <<NewJob(<<0, 0>>, "m1", "train.csv", e)>>
    /\ training_jobs = (<<0, 0>> :> 1)
    /\ trained_models = EmptyCatalog
    /\ active_jobs = 1
    /\ jobs_file = [exists |-> TRUE, data |-> DumpJobs(heap)]
    /\ models_file = [exists |-> TRUE, data |-> EmptyList]
    /\ caller = [c \in Callers |-> IdleCaller]
    /\ worker = <<[UnbornWorker EXCEPT !.pc = "start"]>>
    /\ calls = 1
    /\ running = 0
    /\ preemptions = 0
    /\ response = Reply("start_training", TRUE, "success")
    /\ exports = {}
    /\ restarts = 0

ProgressNext == \E i \in Workers : training_worker(i) /\ worker_thread(i)

ProgressSpec == ProgressInit /\ [][ProgressNext]_vars

\* C29: while the job is pending its progress is 0; after the worker has finished
\* step k of the N = epochs * 10 steps, and until it finishes the next one, the
\* progress is floor(100 * k / N), which is at most 99 for k < N and 100 for k = N.
C29_ProgressIsFloor ==
    \A i \in Workers :
        /\ worker[i].pc = "start" => heap[i].progress = 0
        /\ (worker[i].pc \in {"check", "step", "completed"} /\ heap[worker[i].job].epochs > 0) =>
              LET k == Slept(i)
                  N == heap[worker[i].job].epochs * StepsPerEpoch
                  progress == heap[worker[i].job].progress
              IN /\ progress = (100 * k) \div N
                 /\ k < N => progress \in 0..99
                 /\ k = N => progress = 100

----------------------------------------------------------------------------
\* the jobs a new ModelTrainerAPI loaded from the catalog and that are not terminal
LoadedUnfinished == {a \in Jobs : worker[a].pc = "none" /\ heap[a].status \notin Terminal}

\* this step is the marking made by a cancel_training on the object at address a
CancelSets(a) ==
    \E c \in Callers : /\ caller[c].pc = "cancel" /\ caller[c].job = a
                       /\ caller'[c].pc = "save_jobs"

\* C30: a new ModelTrainerAPI gives every job the status the catalog holds for it,
\* starts no worker and starts with active_jobs = 0; afterwards a loaded job that is
\* not terminal never gets a worker, and its status changes only in the step in which
\* a cancel_training marks it cancelled.
C30_UnfinishedSurfaced ==
    [][/\ ~SameProcess =>
            /\ \A id \in DOMAIN training_jobs' :
                  heap'[training_jobs'[id]].status = FileJob(jobs_file.data, id).status
            /\ DOMAIN training_jobs' = FileJobIds(jobs_file.data)
            /\ \A i \in 1..Len(worker') : worker'[i].pc = "none"
            /\ active_jobs' = 0
       /\ SameProcess =>
            \A a \in LoadedUnfinished :
               /\ worker'[a].pc = "none"
               /\ heap'[a].status # heap[a].status =>
                     CancelSets(a) /\ heap'[a].status = "cancelled"]_vars

\* C30 (witness): after a restart a job loaded as training is still training and has
\* no worker, while a job admitted after the restart has run to its end and
\* active_jobs is back to 0.
C30_TrainingJobLeftAlone ==
    /\ restarts = 1
    /\ active_jobs = 0
    /\ \E a, b \in Jobs : /\ worker[a].pc = "none" /\ heap[a].status = "training"
                          /\ worker[b].pc = "done" /\ heap[b].status = "completed"

=============================================================================
